---- MODULE Spec2Model ----
(***************************************************************************)
(* A model of ticktock's timing engine (src/ticktock/timer.py):            *)
(* AggregateTimes, Clock, ClockCollection and the free function tick, and  *)
(* of the format configuration of StandardRenderer (renderers.py).         *)
(*                                                                         *)
(* Conventions.                                                            *)
(*  - An Optional value is a sequence of length 0 (None) or 1 (the value). *)
(*  - Clock instances live in `heap`; an instance is its index in `heap`,  *)
(*    so "the same instance" is equality of indices.  The registry         *)
(*    `clocks` maps identity keys (strings) to instances.                  *)
(*  - time.perf_counter_ns() and time.perf_counter() read one monotonic    *)
(*    clock, modelled by `now`; both are read in the same abstract unit.   *)
(*  - avg_time_ns is a Python float; it is modelled as an exact rational   *)
(*    [num, den] in lowest terms (rounding of floats is not modelled).     *)
(*  - One ClockCollection is modelled (the default registry, or the one    *)
(*    every call passes as `collection`); TICKTOCK_DEFAULT_PERIOD is unset.*)
(*  - A format string is modelled by what string.Formatter().parse yields  *)
(*    for it: a sequence of items, each a literal text followed by an      *)
(*    optional replacement field name.                                     *)
(*  - `observed`, `ret`, `fret` and `period_arg` are history variables:    *)
(*    what the tocks really measured, the outcome of the call that has     *)
(*    just returned (of the timer, of the renderer), and the `period`      *)
(*    argument the registry was built with.                                *)
(*                                                                         *)
(* Specifications.                                                         *)
(*    Spec     one Clock and the statistics of its labels                  *)
(*    SpecReg  the registry: named and unnamed clocks from several sites   *)
(*    SpecFree SpecReg restricted to the free function tick (no direct     *)
(*             construction of Clock objects)                              *)
(*    SpecLab  one Clock tocked, with and without a label, from several    *)
(*             call sites                                                  *)
(*    SpecFrame two Clocks made by the free function tick, each tocked     *)
(*             with and without a label                                    *)
(*    SpecAgg  AggregateTimes.update as a pure function of its samples     *)
(*    SpecFmt  StandardRenderer.__init__ and set_format as functions of    *)
(*             the format string                                           *)
(***************************************************************************)
EXTENDS Integers, Sequences, FiniteSets, TLC

VARIABLES now, clocks, heap, last_refresh_time_s, period, period_arg, observed,
          ret, rec, samples, renderer, fret

vars == <<now, clocks, heap, last_refresh_time_s, period, period_arg, observed,
          ret, rec, samples, renderer, fret>>

sysvars == <<now, clocks, heap, last_refresh_time_s, period, period_arg, observed,
             ret>>

aggvars == <<rec, samples>>

fmtvars == <<renderer, fret>>

----------------------------------------------------------------------------
(* Bounds of the model *)

MaxTime == 3

MaxTocks == 3

RegTime == 1

RegTocks == 1

MaxSample == 2

MaxUpdates == 3

MaxItems == 3

LabTime == 1

LabTocks == 3

FrameTime == 1

FrameTocks == 3

(* Program constant *)
DEFAULT_PERIOD == 2

----------------------------------------------------------------------------
(* Optional values and Python truthiness *)

None == << >>

Some(x) == <<x>>

IsNone(v) == v = << >>

Get(v) == v[1]

(* `not name` for an Optional[str]: None and the empty string are falsy *)
FalsyStr(v) == IsNone(v) \/ Get(v) = ""

(* `x or d` for an Optional number: None and 0 are falsy *)
FalsyNum(v) == IsNone(v) \/ Get(v) = 0

Min2(a, b) == IF a <= b THEN a ELSE b

Max2(a, b) == IF a >= b THEN a ELSE b

(* A mutation of Put: the assignment drops the other keys *)
PutAlone(d, k, v) == [x \in {k} |-> v]

(* dict[k] = v *)
Put(d, k, v) == [x \in (DOMAIN d) \cup {k} |-> IF x = k THEN v ELSE d[x]]

EmptyDict == [x \in {} |-> 0]

----------------------------------------------------------------------------
(* Exact rationals for the float avg_time_ns *)

Abs(x) == IF x < 0 THEN -x ELSE x

RECURSIVE GCD(_, _)
GCD(a, b) == IF b = 0 THEN a ELSE GCD(b, a % b)

Rat(n, d) ==
    LET g == GCD(Abs(n), Abs(d))
        s == IF d < 0 THEN -1 ELSE 1
    IN  [num |-> (s * n) \div g, den |-> (s * d) \div g]

RatOfInt(n) == [num |-> n, den |-> 1]

RatEq(p, q) == p.num * q.den = q.num * p.den

----------------------------------------------------------------------------
(* AggregateTimes *)

(* AggregateTimes(last_time_ns=dt, avg_time_ns=dt, ...) as built by Clock.tock *)
AggregateTimes(dt) ==
    [avg_time_ns |-> RatOfInt(dt), min_time_ns |-> dt, max_time_ns |-> dt,
     last_time_ns |-> dt, last_dt_ns |-> dt, n_periods |-> 1]

(* max(tock_time_ns, self.max_time_ns or -math.inf) *)
UpdMax(tock_time_ns, max_time_ns) ==
    IF max_time_ns = 0 THEN tock_time_ns ELSE Max2(tock_time_ns, max_time_ns)

(* min(tock_time_ns, self.min_time_ns or math.inf) *)
UpdMin(tock_time_ns, min_time_ns) ==
    IF min_time_ns = 0 THEN tock_time_ns ELSE Min2(tock_time_ns, min_time_ns)

(* A mutation of UpdAvg: the old mean is weighted by the new count *)
UpdAvgNewCount(avg_time_ns, n_periods, last_dt_ns) ==
    LET a == IF avg_time_ns.num = 0 THEN RatOfInt(0) ELSE avg_time_ns
    IN  Rat(a.num * n_periods + last_dt_ns * a.den, a.den * n_periods)

(* ((self.avg_time_ns or 0) * (n_periods - 1) + last_dt_ns) / n_periods,
   n_periods being the incremented count *)
UpdAvg(avg_time_ns, n_periods, last_dt_ns) ==
    LET a == IF avg_time_ns.num = 0 THEN RatOfInt(0) ELSE avg_time_ns
    IN  Rat(a.num * (n_periods - 1) + last_dt_ns * a.den, a.den * n_periods)

(* A mutation of UpdCount: the count is not incremented *)
UpdCountSame(n_periods) == n_periods

(* n_periods += 1 *)
UpdCount(n_periods) == n_periods + 1

(* AggregateTimes.update(tock_time_ns) *)
update(self, tock_time_ns) ==
    LET dt == tock_time_ns - self.last_time_ns
        n  == UpdCount(self.n_periods)
    IN  [avg_time_ns  |-> UpdAvg(self.avg_time_ns, n, dt),
         min_time_ns  |-> UpdMin(tock_time_ns, self.min_time_ns),
         max_time_ns  |-> UpdMax(tock_time_ns, self.max_time_ns),
         last_time_ns |-> tock_time_ns,
         last_dt_ns   |-> dt,
         n_periods    |-> n]

----------------------------------------------------------------------------
(* Inputs *)

(* Call sites (inspect.stack()[1]): file name and line number *)
Sites ==
    { [filename |-> "a.py", lineno |-> 1],
      [filename |-> "a.py", lineno |-> 2],
      [filename |-> "b.py", lineno |-> 1] }

(* The `name` argument of tick and Clock *)
TickNames == { None, Some("a"), Some("a.py:1") }

(* The `name` argument of Clock.tock *)
TockNames == { None, Some("x") }

(* The `tick_time_ns` argument of tick and Clock *)
TickTimes == { None, Some(0) }

(* The `period` argument of ClockCollection *)
Periods == { None, Some(0), Some(1), Some(-1) }

(* Time a tock spends printing, between two readings of the clock *)
Delays == { 0, 1 }

(* The samples given to AggregateTimes in SpecAgg *)
Samples == (-1 .. MaxSample) \cup { 1000 }

(* Spec: one Clock object, ticked and tocked from b.py *)
StatInstances == { 1 }

StatNames == { None }

StatSites == { s \in Sites : s.filename = "b.py" }

(* SpecReg, SpecFree: two Clock objects, ticked from a.py and tocked from b.py *)
RegInstances == { 1, 2 }

RegSites == { s \in Sites : s.filename = "a.py" }

RegTickTimes == { None }

RegPeriods == { None, Some(1) }

RegTockNames == { Some("x") }

----------------------------------------------------------------------------
(* ClockCollection *)

(* self._period = period or os.environ.get("TICKTOCK_DEFAULT_PERIOD",
   float(DEFAULT_PERIOD)), the environment variable being unset *)
InitPeriod(p) == IF FalsyNum(p) THEN DEFAULT_PERIOD ELSE Get(p)

(* A mutation of RefreshDue: a check made exactly one period after the last
   refresh is due *)
RefreshDueAtPeriod(last, t, p) == IsNone(last) \/ t - Get(last) >= p

(* The gate of ClockCollection.update, read at time t *)
RefreshDue(last, t, p) == IsNone(last) \/ t - Get(last) > p

(* What ClockCollection.print writes: one line per registered clock and label
   (a set: the order of the lines is not modelled) *)
PrintedLines(cs, hp) ==
    UNION { { [name |-> hp[cs[k]].name, key |-> l,
               avg  |-> hp[cs[k]].aggregate_times[l].avg_time_ns,
               last |-> hp[cs[k]].aggregate_times[l].last_time_ns,
               n    |-> hp[cs[k]].aggregate_times[l].n_periods] :
                l \in DOMAIN hp[cs[k]].aggregate_times } : k \in DOMAIN cs }

----------------------------------------------------------------------------
(* Clock *)

(* A mutation of SiteKey: the line number is left out of the key *)
SiteKeyNoLine(site) == site.filename

(* f"{filename}:{lineno}" *)
SiteKey(site) == site.filename \o ":" \o ToString(site.lineno)

(* self.name = name or f"clock_{len(self.collection.clocks)}" *)
ClockName(name, cs) ==
    IF FalsyStr(name) THEN "clock_" \o ToString(Cardinality(DOMAIN cs)) ELSE Get(name)

(* self._unique_id = name or f"{filename}:{lineno}" *)
UniqueId(name, site) == IF FalsyStr(name) THEN SiteKey(site) ELSE Get(name)

(* A mutation of NewClock: the records are a dict shared with the Clock built
   before *)
NewClockSharedRecords(name, tick_time_ns, site, cs) ==
    [name            |-> ClockName(name, cs),
     tick_frame_info |-> site,
     unique_id       |-> UniqueId(name, site),
     aggregate_times |-> IF heap = << >> THEN EmptyDict
                         ELSE heap[Len(heap)].aggregate_times,
     tick_time_ns    |-> tick_time_ns]

(* The object Clock.__init__ builds *)
NewClock(name, tick_time_ns, site, cs) ==
    [name            |-> ClockName(name, cs),
     tick_frame_info |-> site,
     unique_id       |-> UniqueId(name, site),
     aggregate_times |-> EmptyDict,
     tick_time_ns    |-> tick_time_ns]

(* self.collection.clocks[self._unique_id] = self *)
Register(cs, unique_id, c) == Put(cs, unique_id, c)

(* A mutation of TickTime: a pending tick is not overwritten *)
TickTimeKeepFirst(old, t) == IF IsNone(old) THEN Some(t) ELSE old

(* Clock.tick: self._tick_time_ns = time.perf_counter_ns() *)
TickTime(old, t) == Some(t)

(* A mutation of TockLabel: the line of the tock is left out of the label *)
TockLabelNoTockLine(self, name, site) ==
    IF FalsyStr(name)
    THEN site.filename \o ":" \o ToString(self.tick_frame_info.lineno)
    ELSE Get(name)

(* The label of a tock: name, or
   f"{tock_caller_frame.filename}:{self._tick_frame_info.lineno}-{tock_caller_frame.lineno}" *)
TockLabel(self, name, site) ==
    IF FalsyStr(name)
    THEN site.filename \o ":" \o ToString(self.tick_frame_info.lineno)
           \o "-" \o ToString(site.lineno)
    ELSE Get(name)

(* A mutation of RaisedTock: the record is inserted before the subtraction
   of line 103 raises *)
RaisedTockInserted(aggregate_times, label) ==
    Put(aggregate_times, label, AggregateTimes(0))

(* The records of a clock after a tock whose subtraction at line 103 raised
   TypeError: the assignment of lines 104-110 is not reached *)
RaisedTock(aggregate_times, label) == aggregate_times

(* The record of `label` after a tock read at tock_time_ns *)
TockRecord(self, label, tock_time_ns) ==
    IF label \in DOMAIN self.aggregate_times
    THEN update(self.aggregate_times[label], tock_time_ns)
    ELSE AggregateTimes(tock_time_ns - Get(self.tick_time_ns))

----------------------------------------------------------------------------
(* StandardRenderer: the format string and its fields *)

(* One tuple of Formatter().parse: (literal_text, field_name, _, _) *)
Item(literal, field_name) == [literal |-> literal, field_name |-> field_name]

(* The keys of the dict FIELDS *)
FIELDS ==
    { "count", "tick_name", "tock_name", "tick_line", "tock_line", "tick_filename",
      "tock_filename", "avg_time_ns", "std_time_ns", "min_time_ns", "max_time_ns",
      "last_time_ns" }

(* The keys of the dict TIME_FIELDS *)
TIME_FIELDS == { "mean", "std", "min", "max", "last" }

(* The dict FORMATS: the names "short" and "long" and the strings they stand for *)
FORMATS ==
    (<<Item("short", None)>> :>
        <<Item("[", Some("tick_name")), Item("-", Some("tock_name")),
          Item("] ", Some("mean")), Item(" count=", Some("count"))>>)
    @@
    (<<Item("long", None)>> :>
        <<Item("[", Some("tick_name")), Item("-", Some("tock_name")),
          Item("] ", Some("mean")), Item(" (", Some("std")),
          Item(" std) min=", Some("min")), Item(" max=", Some("max")),
          Item(" count=", Some("count")), Item(" last=", Some("last"))>>)

(* A mutation of Classify: a name outside both vocabularies passes as a field *)
ClassifyLenient(field_name) ==
    IF field_name \in TIME_FIELDS THEN "time_field" ELSE "field"

(* Lines 89-95: FIELDS is looked up first, then TIME_FIELDS, else ValueError *)
Classify(field_name) ==
    IF field_name \in FIELDS THEN "field"
    ELSE IF field_name \in TIME_FIELDS THEN "time_field"
    ELSE "unknown"

(* The loop of set_format over the items of the format, from the lists
   collected so far; it stops at the first unknown field name *)
RECURSIVE Scan(_, _, _)
Scan(items, fields, time_fields) ==
    IF items = << >>
    THEN [fields |-> fields, time_fields |-> time_fields, error |-> ""]
    ELSE LET field_name == Head(items).field_name
         IN  IF IsNone(field_name)
             THEN Scan(Tail(items), fields, time_fields)
             ELSE IF Classify(Get(field_name)) = "field"
             THEN Scan(Tail(items), Append(fields, Get(field_name)), time_fields)
             ELSE IF Classify(Get(field_name)) = "time_field"
             THEN Scan(Tail(items), fields, Append(time_fields, Get(field_name)))
             ELSE [fields |-> fields, time_fields |-> time_fields, error |-> "ValueError"]

(* self._format after lines 82-84 *)
Expand(format) == IF format \in DOMAIN FORMATS THEN FORMATS[format] ELSE format

(* StandardRenderer.set_format(format) on the object `self`: the object it
   leaves and the exception it raises; _has_printed is reset at line 96 only *)
set_format(self, format) ==
    LET r == Scan(Expand(format), << >>, << >>)
    IN  [self  |-> [format |-> Expand(format), fields |-> r.fields,
                    time_fields |-> r.time_fields,
                    has_printed |-> IF r.error = "" THEN 0 ELSE self.has_printed],
         error |-> r.error]

(* The attributes of the class StandardRenderer before __init__ sets them *)
BlankRenderer ==
    [format |-> << >>, fields |-> << >>, time_fields |-> << >>, has_printed |-> 0]

(* The items the formats of SpecFmt are made of: the literal "short" and the
   fields {count}, {mean}, {bogus} and {} *)
FormatItems ==
    { Item("short", None), Item("", Some("count")), Item("", Some("mean")),
      Item("", Some("bogus")), Item("", Some("")) }

(* The `format` argument: up to MaxItems items *)
Formats == UNION { [1..n -> FormatItems] : n \in 1..MaxItems }

NoFret == [op |-> "", format |-> << >>, error |-> ""]

----------------------------------------------------------------------------
(* History: the call that has just returned, and what the tocks measured *)

NoRet ==
    [op |-> "", self |-> 0, name |-> None, site |-> None, error |-> "",
     rendered |-> FALSE]

(* Per Clock object: obs, the true elapsed intervals (tock time minus the
   pending tick timestamp) folded into each label; pending, the pending tick
   timestamp as the calls set it (the constructor's argument, then the time of
   the latest tick); reticked, whether a tick replaced a pending tick of
   another time before the clock was first tocked; sites, for each label the
   unlabelled tocks were folded into, the call sites of those tocks *)
NoObserved ==
    [obs |-> EmptyDict, pending |-> None, reticked |-> FALSE, sites |-> EmptyDict]

ObserveSite(sites, label, name, site) ==
    IF FalsyStr(name)
    THEN Put(sites, label,
             (IF label \in DOMAIN sites THEN sites[label] ELSE {}) \cup {site})
    ELSE sites

Observe(obs, label, elapsed) ==
    IF label \in DOMAIN obs
    THEN Put(obs, label,
             [n |-> obs[label].n + 1, lo |-> Min2(obs[label].lo, elapsed),
              hi |-> Max2(obs[label].hi, elapsed), last |-> elapsed])
    ELSE Put(obs, label, [n |-> 1, lo |-> elapsed, hi |-> elapsed, last |-> elapsed])

ObserveTick(o, t) ==
    [o EXCEPT !.pending = Some(t),
              !.reticked = @ \/ (o.obs = EmptyDict /\ ~IsNone(o.pending)
                                   /\ o.pending # Some(t))]

RECURSIVE SumN(_)
SumN(obs) ==
    IF DOMAIN obs = {} THEN 0
    ELSE LET l == CHOOSE x \in DOMAIN obs : TRUE
         IN  obs[l].n + SumN([x \in (DOMAIN obs) \ {l} |-> obs[x]])

RECURSIVE SumSeq(_)
SumSeq(s) == IF s = << >> THEN 0 ELSE SumN(Head(s).obs) + SumSeq(Tail(s))

(* The number of tocks folded so far, over all clocks *)
TotalTocks == SumSeq(observed)

----------------------------------------------------------------------------
(* The clock system: initial state and operations *)

(* _INTIME_CLOCKS = ClockCollection(), or ClockCollection(period=p), p in ps *)
InitWith(ps) ==
    /\ now = 0
    /\ clocks = EmptyDict
    /\ heap = << >>
    /\ last_refresh_time_s = None
    /\ \E p \in ps : period_arg = p /\ period = InitPeriod(p)
    /\ observed = << >>
    /\ ret = NoRet
    /\ rec = AggregateTimes(0)
    /\ samples = <<0>>
    /\ renderer = None
    /\ fret = NoFret

Init == InitWith(Periods)

InitReg == InitWith(RegPeriods)

InitDefault == InitWith({ None })

(* Time passes between two calls *)
Advance ==
    /\ now' = now + 1
    /\ ret' = NoRet
    /\ UNCHANGED <<clocks, heap, last_refresh_time_s, period, period_arg, observed>>
    /\ UNCHANGED aggvars
    /\ UNCHANGED fmtvars

(* Clock(name, collection, tick_time_ns, tick_frame_info) called from `site` *)
ClockInit(name, tick_time_ns, site) ==
    /\ LET self == NewClock(name, tick_time_ns, site, clocks)
           c    == Len(heap) + 1
       IN  /\ heap' = Append(heap, self)
           /\ clocks' = Register(clocks, self.unique_id, c)
           /\ observed' = Append(observed, [NoObserved EXCEPT !.pending = tick_time_ns])
           /\ ret' = [NoRet EXCEPT !.op = "Clock", !.self = c, !.name = name,
                                   !.site = Some(site)]
    /\ UNCHANGED <<now, last_refresh_time_s, period, period_arg>>
    /\ UNCHANGED aggvars
    /\ UNCHANGED fmtvars

(* Clock.tick() on instance c *)
ClockTick(c) ==
    /\ c \in 1..Len(heap)
    /\ heap' = [heap EXCEPT ![c].tick_time_ns = TickTime(@, now)]
    /\ observed' = [observed EXCEPT ![c] = ObserveTick(@, now)]
    /\ ret' = [NoRet EXCEPT !.op = "Clock.tick", !.self = c]
    /\ UNCHANGED <<now, clocks, last_refresh_time_s, period, period_arg>>
    /\ UNCHANGED aggvars
    /\ UNCHANGED fmtvars

(* Clock.tock(name) on instance c, called from `site`; the clock is read at
   line 98 and at line 22 (now), and by ClockCollection.update at line 25, d
   later, after it has printed *)
ClockTock(c, name, site) ==
    /\ c \in 1..Len(heap)
    /\ LET self  == heap[c]
           label == TockLabel(self, name, site)
           known == label \in DOMAIN self.aggregate_times
       IN  IF ~known /\ IsNone(self.tick_time_ns)
           THEN \* tock_time_ns - None raises TypeError at line 103
                /\ ret' = [NoRet EXCEPT !.op = "Clock.tock", !.self = c, !.name = Some(label),
                                        !.site = Some(site), !.error = "TypeError"]
                /\ heap' = [heap EXCEPT ![c].aggregate_times = RaisedTock(@, label)]
                /\ UNCHANGED <<now, clocks, last_refresh_time_s, period, period_arg,
                               observed>>
           ELSE \E d \in Delays :
                  LET tock_time_ns == now
                      due == RefreshDue(last_refresh_time_s, now, period)
                  IN  /\ ~due => d = 0
                      /\ heap' = [heap EXCEPT ![c].aggregate_times =
                                    Put(@, label, TockRecord(self, label, tock_time_ns))]
                      /\ observed' = [observed EXCEPT
                             ![c].obs = Observe(@, label,
                                            tock_time_ns - Get(observed[c].pending)),
                             ![c].sites = ObserveSite(@, label, name, site)]
                      /\ now' = now + d
                      /\ last_refresh_time_s' =
                             IF due THEN Some(now + d) ELSE last_refresh_time_s
                      /\ ret' = [NoRet EXCEPT !.op = "Clock.tock", !.self = c,
                                    !.name = Some(label), !.site = Some(site),
                                    !.rendered = due]
                      /\ UNCHANGED <<clocks, period, period_arg>>
    /\ UNCHANGED aggvars
    /\ UNCHANGED fmtvars

(* tick(name, collection, tick_time_ns) called from `site` *)
tick(name, tick_time_ns, site) ==
    /\ IF FalsyStr(name)
       THEN IF SiteKey(site) \in DOMAIN clocks
            THEN \* lines 124-129: the registered clock is ticked and returned
                 LET c == clocks[SiteKey(site)]
                 IN  /\ heap' = [heap EXCEPT ![c].tick_time_ns = TickTime(@, now)]
                     /\ observed' = [observed EXCEPT ![c] = ObserveTick(@, now)]
                     /\ ret' = [NoRet EXCEPT !.op = "tick", !.self = c, !.name = name,
                                   !.site = Some(site)]
                     /\ UNCHANGED clocks
            ELSE \* lines 130-137: a new clock is built, registered and ticked
                 LET self == NewClock(name, tick_time_ns, site, clocks)
                     c    == Len(heap) + 1
                 IN  /\ heap' = Append(heap,
                            [self EXCEPT !.tick_time_ns = TickTime(@, now)])
                     /\ clocks' = Register(clocks, self.unique_id, c)
                     /\ observed' = Append(observed,
                            ObserveTick([NoObserved EXCEPT !.pending = tick_time_ns], now))
                     /\ ret' = [NoRet EXCEPT !.op = "tick", !.self = c, !.name = name,
                                   !.site = Some(site)]
       ELSE \* line 134 reads tick_frame_info, which is bound only when name is
            \* falsy: UnboundLocalError before Clock is called
            /\ ret' = [NoRet EXCEPT !.op = "tick", !.name = name, !.site = Some(site),
                          !.error = "UnboundLocalError"]
            /\ UNCHANGED <<clocks, heap, observed>>
    /\ UNCHANGED <<now, last_refresh_time_s, period, period_arg>>
    /\ UNCHANGED aggvars
    /\ UNCHANGED fmtvars

----------------------------------------------------------------------------
(* Spec: one Clock and the statistics of its labels.  The bounds are on the
   state a step leads to. *)

Bounded ==
    /\ now <= MaxTime
    /\ DOMAIN heap \subseteq StatInstances
    /\ TotalTocks <= MaxTocks

Next ==
    \/ Advance /\ Bounded'
    \/ \E n \in StatNames, t \in TickTimes, s \in StatSites : ClockInit(n, t, s) /\ Bounded'
    \/ \E c \in StatInstances : ClockTick(c)
    \/ \E c \in StatInstances, n \in TockNames, s \in StatSites :
          ClockTock(c, n, s) /\ Bounded'
    \/ \E n \in StatNames, t \in TickTimes, s \in StatSites : tick(n, t, s) /\ Bounded'

Spec == Init /\ [][Next]_vars

----------------------------------------------------------------------------
(* SpecReg: the registry, with named and unnamed clocks from several sites *)

BoundedReg ==
    /\ now <= RegTime
    /\ DOMAIN heap \subseteq RegInstances
    /\ TotalTocks <= RegTocks

NextReg ==
    \/ Advance /\ BoundedReg'
    \/ \E n \in TickNames, t \in RegTickTimes, s \in RegSites :
          ClockInit(n, t, s) /\ BoundedReg'
    \/ \E c \in RegInstances : ClockTick(c)
    \/ \E c \in RegInstances, n \in RegTockNames, s \in StatSites :
          ClockTock(c, n, s) /\ BoundedReg'
    \/ \E n \in TickNames, t \in RegTickTimes, s \in RegSites :
          tick(n, t, s) /\ BoundedReg'

SpecReg == InitReg /\ [][NextReg]_vars

(* SpecFree: the registry used through the free function tick only *)
NextFree ==
    \/ Advance /\ BoundedReg'
    \/ \E c \in RegInstances : ClockTick(c)
    \/ \E c \in RegInstances, n \in RegTockNames, s \in StatSites :
          ClockTock(c, n, s) /\ BoundedReg'
    \/ \E n \in TickNames, t \in TickTimes, s \in RegSites :
          tick(n, t, s) /\ BoundedReg'

SpecFree == InitReg /\ [][NextFree]_vars

----------------------------------------------------------------------------
(* SpecLab: one Clock made by the free function tick in b.py and tocked from
   every call site *)

BoundedLab ==
    /\ now <= LabTime
    /\ DOMAIN heap \subseteq StatInstances
    /\ TotalTocks <= LabTocks

NextLab ==
    \/ Advance /\ BoundedLab'
    \/ \E c \in StatInstances : ClockTick(c)
    \/ \E c \in StatInstances, n \in TockNames, s \in Sites :
          ClockTock(c, n, s) /\ BoundedLab'
    \/ \E n \in StatNames, t \in RegTickTimes, s \in StatSites :
          tick(n, t, s) /\ BoundedLab'

SpecLab == InitReg /\ [][NextLab]_vars

----------------------------------------------------------------------------
(* SpecFrame: two Clocks made and re-armed by the free function tick in a.py,
   each tocked from b.py with and without a label *)

BoundedFrame ==
    /\ now <= FrameTime
    /\ DOMAIN heap \subseteq RegInstances
    /\ TotalTocks <= FrameTocks

NextFrame ==
    \/ Advance /\ BoundedFrame'
    \/ \E c \in RegInstances, n \in TockNames, s \in StatSites :
          ClockTock(c, n, s) /\ BoundedFrame'
    \/ \E n \in StatNames, t \in RegTickTimes, s \in RegSites :
          tick(n, t, s) /\ BoundedFrame'

SpecFrame == InitDefault /\ [][NextFrame]_vars

----------------------------------------------------------------------------
(* SpecAgg: an AggregateTimes record seeded with one sample and updated *)

InitAgg ==
    /\ now = 0
    /\ clocks = EmptyDict
    /\ heap = << >>
    /\ last_refresh_time_s = None
    /\ period = DEFAULT_PERIOD
    /\ period_arg = None
    /\ observed = << >>
    /\ ret = NoRet
    /\ \E e \in Samples : rec = AggregateTimes(e) /\ samples = <<e>>
    /\ renderer = None
    /\ fret = NoFret

AggUpdate(x) ==
    /\ Len(samples) <= MaxUpdates
    /\ rec' = update(rec, x)
    /\ samples' = Append(samples, x)
    /\ UNCHANGED sysvars
    /\ UNCHANGED fmtvars

NextAgg == \E x \in Samples : AggUpdate(x)

SpecAgg == InitAgg /\ [][NextAgg]_vars

----------------------------------------------------------------------------
(* SpecFmt: a StandardRenderer is built with a format and re-configured *)

(* StandardRenderer(format=format): on ValueError no object is built *)
StandardRenderer(format) ==
    /\ IsNone(renderer)
    /\ LET r == set_format(BlankRenderer, format)
       IN  /\ renderer' = IF r.error = "" THEN Some(r.self) ELSE None
           /\ fret' = [op |-> "StandardRenderer", format |-> format, error |-> r.error]
    /\ UNCHANGED sysvars
    /\ UNCHANGED aggvars

(* renderer.set_format(format) on the object built before *)
SetFormat(format) ==
    /\ ~IsNone(renderer)
    /\ LET r == set_format(Get(renderer), format)
       IN  /\ renderer' = Some(r.self)
           /\ fret' = [op |-> "set_format", format |-> format, error |-> r.error]
    /\ UNCHANGED sysvars
    /\ UNCHANGED aggvars

NextFmt ==
    \/ \E f \in Formats : StandardRenderer(f)
    \/ \E f \in Formats : SetFormat(f)

SpecFmt == InitDefault /\ [][NextFmt]_vars

----------------------------------------------------------------------------
(* Properties *)

RECURSIVE SeqSum(_)
SeqSum(q) == IF q = << >> THEN 0 ELSE Head(q) + SeqSum(Tail(q))

SeqMin(q) == CHOOSE m \in { q[i] : i \in DOMAIN q } : \A i \in DOMAIN q : m <= q[i]

SeqMax(q) == CHOOSE m \in { q[i] : i \in DOMAIN q } : \A i \in DOMAIN q : m >= q[i]

(* The records of the model: pairs of a Clock object and one of its labels *)
Records ==
    { cl \in (DOMAIN heap) \X UNION { DOMAIN heap[c].aggregate_times : c \in DOMAIN heap } :
        cl[2] \in DOMAIN heap[cl[1]].aggregate_times }

Record(cl) == heap[cl[1]].aggregate_times[cl[2]]

Observed(cl) == observed[cl[1]].obs[cl[2]]

(* C1: after any tock, whether its label is new or already has a record, the
   record's last_time_ns is the elapsed interval of that tock: the time of the
   tock minus the clock's pending tick timestamp. *)
LastTimeIsElapsed ==
    \A cl \in Records : Record(cl).last_time_ns = Observed(cl).last

(* C2: min_time_ns and max_time_ns of a record are the smallest and the largest
   elapsed interval of the tocks folded into it, and with them n_periods and
   last_time_ns are those of the tocks: a tick at T and two tocks of one label
   at T+1 and T+2 leave n_periods = 2, min = 1, max = 2, last = 2 for every T. *)
MinMaxAreElapsedBounds ==
    \A cl \in Records :
        /\ Record(cl).min_time_ns = Observed(cl).lo
        /\ Record(cl).max_time_ns = Observed(cl).hi
        /\ Observed(cl) = [n |-> 2, lo |-> 1, hi |-> 2, last |-> 2]
             => /\ Record(cl).n_periods = 2
                /\ Record(cl).last_time_ns = 2

(* C3: for a record seeded with e0 and updated with e1..ek, after every update
   min_time_ns is the minimum and max_time_ns the maximum of all the samples
   seen so far. *)
MinMaxOfSamples ==
    /\ rec.min_time_ns = SeqMin(samples)
    /\ rec.max_time_ns = SeqMax(samples)

(* C4: n_periods of a label's record is the number of tocks folded into it: 1
   when the first tock of the label creates it, one more after every later
   tock of the label, never below 1; a label has a record exactly when a tock
   was folded into it. *)
CountIsNumberOfTocks ==
    /\ \A c \in DOMAIN heap : DOMAIN heap[c].aggregate_times = DOMAIN observed[c].obs
    /\ \A cl \in Records :
          /\ Record(cl).n_periods = Observed(cl).n
          /\ Record(cl).n_periods >= 1

CountWitness ==
    /\ ret.op = "Clock.tock"
    /\ ret.error = ""
    /\ \E cl \in Records : cl[1] = ret.self /\ Some(cl[2]) = ret.name
                             /\ Record(cl).n_periods = 3

(* C5: avg_time_ns is the mean of the samples: (e0 + ... + ek) / (k + 1) after
   every update. *)
AvgIsMeanOfSamples ==
    rec.avg_time_ns.num * Len(samples) = SeqSum(samples) * rec.avg_time_ns.den

(* C6: update(x) sets last_dt_ns to x minus the previous last_time_ns and
   avg_time_ns to (previous avg_time_ns * previous n_periods + last_dt_ns) /
   (previous n_periods + 1); so for a record seeded with e and updated k times
   with e, last_dt_ns is 0 after every update and avg_time_ns is e / (k + 1). *)
UpdateStep ==
    samples' # samples =>
        LET x == samples'[Len(samples')]
        IN  /\ rec'.last_dt_ns = x - rec.last_time_ns
            /\ rec'.avg_time_ns.num * (rec.avg_time_ns.den * (rec.n_periods + 1))
                 = (rec.avg_time_ns.num * rec.n_periods
                      + rec'.last_dt_ns * rec.avg_time_ns.den) * rec'.avg_time_ns.den

RepeatedSample ==
    (\A i \in DOMAIN samples : samples[i] = samples[1]) =>
        /\ Len(samples) > 1 => rec.last_dt_ns = 0
        /\ rec.avg_time_ns.num * Len(samples) = samples[1] * rec.avg_time_ns.den

UpdateUsesDelta == [][UpdateStep]_vars /\ []RepeatedSample

UpdateWitness ==
    /\ samples = <<1000, 1000, 1000, 1000>>
    /\ rec.last_dt_ns = 0
    /\ rec.avg_time_ns = [num |-> 250, den |-> 1]

(* C7: tick(name=n) with an explicit name completes without error and returns
   the Clock registered under n. *)
NamedTickReturnsRegistered ==
    (ret.op = "tick" /\ ~FalsyStr(ret.name)) =>
        /\ ret.error = ""
        /\ ret.self \in DOMAIN heap
        /\ Get(ret.name) \in DOMAIN clocks
        /\ clocks[Get(ret.name)] = ret.self

(* C8: unnamed calls of tick resolve to the same Clock object exactly when they
   come from the same call site: a call from a known site returns the clock of
   that site, adds no registry entry, keeps its records and sets its pending
   tick to the time of the call; a call from a new site creates a Clock under
   a new key and leaves the other entries alone. *)
OneClockPerSite ==
    /\ \A c, d \in DOMAIN heap :
          heap[c].tick_frame_info = heap[d].tick_frame_info => c = d
    /\ \A k \in DOMAIN clocks : heap[clocks[k]].unique_id = k

TickResolves ==
    (ret'.op = "tick" /\ ret'.error = "") =>
        LET c == ret'.self
            s == Get(ret'.site)
        IN  /\ c \in DOMAIN heap'
            /\ heap'[c].tick_frame_info = s
            /\ heap'[c].tick_time_ns = Some(now)
            /\ clocks'[heap'[c].unique_id] = c
            /\ \A k \in DOMAIN clocks : k \in DOMAIN clocks' /\ clocks'[k] = clocks[k]
            /\ IF \E d \in DOMAIN heap : heap[d].tick_frame_info = s
               THEN /\ c \in DOMAIN heap
                    /\ Len(heap') = Len(heap)
                    /\ clocks' = clocks
                    /\ heap'[c].aggregate_times = heap[c].aggregate_times
               ELSE /\ c \notin DOMAIN heap
                    /\ heap'[c].unique_id \notin DOMAIN clocks
                    /\ DOMAIN clocks' = DOMAIN clocks \cup { heap'[c].unique_id }

IdentityKeepsInstance ==
    [][\A k \in DOMAIN clocks : k \in DOMAIN clocks' /\ clocks'[k] = clocks[k]]_vars

(* C10: on a Clock not tocked yet, a tick at t1, a second tick at t2 and a tock
   at t3 record t3 - t2: last_time_ns, min_time_ns and max_time_ns of the new
   record are the tock's time minus the time of the latest tick. *)
SecondTickWins ==
    [][\A c \in DOMAIN heap :
          (/\ observed[c].reticked
           /\ observed[c].obs = EmptyDict
           /\ observed'[c].obs # EmptyDict)
          => \A l \in DOMAIN heap'[c].aggregate_times :
                LET r == heap'[c].aggregate_times[l]
                    e == now - Get(observed[c].pending)
                IN  r.last_time_ns = e /\ r.min_time_ns = e /\ r.max_time_ns = e]_vars

SecondTickWitness ==
    /\ ret.op = "Clock.tock"
    /\ ret.error = ""
    /\ observed[ret.self].reticked
    /\ \E l \in DOMAIN heap[ret.self].aggregate_times :
          /\ DOMAIN heap[ret.self].aggregate_times = { l }
          /\ heap[ret.self].aggregate_times[l].n_periods = 1
          /\ heap[ret.self].aggregate_times[l].last_time_ns = 1
          /\ now = 3

(* C11: the refresh check of a completed tock renders, and sets the
   last-refresh timestamp to the time read after rendering, exactly when the
   timestamp is absent or the time of the check minus the timestamp exceeds
   the period; otherwise it neither renders nor changes the timestamp.  Two
   consecutive renders of the registry are therefore more than one period
   apart. *)
RefreshStep ==
    (ret'.op = "Clock.tock" /\ ret'.error = "") =>
        LET due == IsNone(last_refresh_time_s) \/ now - Get(last_refresh_time_s) > period
        IN  /\ ret'.rendered <=> due
            /\ due => last_refresh_time_s' = Some(now')
            /\ ~due => last_refresh_time_s' = last_refresh_time_s /\ now' = now
            /\ (due /\ ~IsNone(last_refresh_time_s)) =>
                   /\ now - Get(last_refresh_time_s) > period
                   /\ Get(last_refresh_time_s') - Get(last_refresh_time_s) > period

RefreshGate == [][RefreshStep]_vars

RefreshWitness ==
    /\ ret.op = "Clock.tock"
    /\ ret.error = ""
    /\ ret.rendered
    /\ TotalTocks >= 2
    /\ period_arg = None
    /\ period = DEFAULT_PERIOD
    /\ last_refresh_time_s = Some(now)
    /\ now = 3

(* C12: a registry built with an explicit period p >= 0 uses p as its refresh
   period, the default applies when no period is given, and on a registry built
   with period 0 every completed tock renders. *)
ExplicitPeriodUsed ==
    /\ IsNone(period_arg) => period = DEFAULT_PERIOD
    /\ (~IsNone(period_arg) /\ Get(period_arg) >= 0) => period = Get(period_arg)
    /\ (period_arg = Some(0) /\ ret.op = "Clock.tock" /\ ret.error = "") => ret.rendered

(* C13: a completed tock runs the refresh check after its record is created
   or updated: the first completed tock on a registry that has never rendered
   renders, and a render triggered by a tock prints the line of that tock's
   record, whose n_periods counts the tock. *)
TockThenRefresh ==
    (ret'.op = "Clock.tock" /\ ret'.error = "") =>
        LET c == ret'.self
            l == Get(ret'.name)
            r == heap'[c].aggregate_times[l]
        IN  /\ IsNone(last_refresh_time_s) => ret'.rendered
            /\ r.n_periods = IF l \in DOMAIN heap[c].aggregate_times
                             THEN heap[c].aggregate_times[l].n_periods + 1 ELSE 1
            /\ ret'.rendered =>
                  [name |-> heap'[c].name, key |-> l, avg |-> r.avg_time_ns,
                   last |-> r.last_time_ns, n |-> r.n_periods]
                      \in PrintedLines(clocks', heap')

RenderShowsTock == [][TockThenRefresh]_vars

(* C14: a tock on a Clock that has no pending tick (built without
   tick_time_ns and never ticked) ends with an error and changes nothing: no
   record is created or changed, the refresh check is not run, and the
   last-refresh timestamp, the registry and the clock are as before. *)
TockWithoutTick ==
    \A c \in DOMAIN heap :
        (ret'.op = "Clock.tock" /\ ret'.self = c /\ IsNone(observed[c].pending)) =>
            /\ ret'.error # ""
            /\ ~ret'.rendered
            /\ heap' = heap
            /\ clocks' = clocks
            /\ last_refresh_time_s' = last_refresh_time_s
            /\ now' = now

TockWithoutTickRejected == [][TockWithoutTick]_vars

TockWithoutTickWitness ==
    /\ ret.op = "Clock.tock"
    /\ ret.error = "TypeError"
    /\ IsNone(heap[ret.self].tick_time_ns)
    /\ IsNone(observed[ret.self].pending)
    /\ heap[ret.self].aggregate_times = EmptyDict
    /\ clocks = heap[ret.self].unique_id :> ret.self
    /\ IsNone(last_refresh_time_s)
    /\ now > 0

(* C15: a tick (Clock.tick, or the free function tick whether it re-arms a
   registered Clock or creates one) never renders, never changes the
   last-refresh timestamp and never changes an aggregate record: the records
   of every existing Clock are as before and a Clock it creates has none. *)
TickFrame ==
    (ret'.op \in { "tick", "Clock.tick" }) =>
        /\ ~ret'.rendered
        /\ last_refresh_time_s' = last_refresh_time_s
        /\ \A c \in DOMAIN heap :
              c \in DOMAIN heap' /\ heap'[c].aggregate_times = heap[c].aggregate_times
        /\ \A c \in (DOMAIN heap') \ (DOMAIN heap) : heap'[c].aggregate_times = EmptyDict

TickLeavesRecords == [][TickFrame]_vars

TickLeavesRecordsWitness ==
    /\ ret.op = "tick"
    /\ ret.error = ""
    /\ ret.self = 2
    /\ Len(heap) = 2
    /\ heap[2].tick_time_ns = Some(now)
    /\ heap[2].aggregate_times = EmptyDict
    /\ heap[1].aggregate_times # EmptyDict
    /\ ~IsNone(last_refresh_time_s)

(* C16: a StandardRenderer configured, by its constructor or by set_format,
   with a format that names a field outside FIELDS and TIME_FIELDS raises
   ValueError in that call (the constructor builds no renderer); a format
   whose fields are all recognized is accepted, and each of its fields is
   listed as a plain field or as a duration field, according to the vocabulary
   it belongs to. *)
FormatFieldsChecked ==
    fret.op # "" =>
        LET f == IF fret.format \in DOMAIN FORMATS THEN FORMATS[fret.format]
                 ELSE fret.format
            names == { Get(f[i].field_name) :
                         i \in { j \in DOMAIN f : ~IsNone(f[j].field_name) } }
            unknown == names \ (FIELDS \cup TIME_FIELDS)
        IN  /\ (unknown # {}) <=> (fret.error = "ValueError")
            /\ (unknown # {} /\ fret.op = "StandardRenderer") => IsNone(renderer)
            /\ unknown = {} =>
                  /\ fret.error = ""
                  /\ ~IsNone(renderer)
                  /\ Get(renderer).format = f
                  /\ LET plain == { Get(renderer).fields[i] :
                                      i \in DOMAIN Get(renderer).fields }
                         dur   == { Get(renderer).time_fields[i] :
                                      i \in DOMAIN Get(renderer).time_fields }
                     IN  /\ plain = names \cap FIELDS
                         /\ dur = names \cap TIME_FIELDS
                         /\ plain \cap dur = {}

FormatRejectedWitness ==
    /\ fret.op = "StandardRenderer"
    /\ fret.error = "ValueError"
    /\ IsNone(renderer)
    /\ Len(fret.format) = 2
    /\ fret.format[1].field_name = Some("mean")
    /\ fret.format[2].field_name = Some("bogus")

(* C17: constructing a registry with a negative period fails: no registry
   built with period p < 0 uses p as its refresh period. *)
NegativePeriodRejected ==
    ~(~IsNone(period_arg) /\ Get(period_arg) < 0 /\ period = Get(period_arg))

(* C18: the label of an unlabelled tock is a function of the tock's call
   site (file and line) and of the clock: the unlabelled tocks of one clock
   made from one call site go into one record, and those made from different
   call sites go into different records. *)
UnlabelledTockBySite ==
    \A c \in DOMAIN heap :
        LET sm == observed[c].sites
        IN  /\ \A l \in DOMAIN sm :
                  /\ Cardinality(sm[l]) = 1
                  /\ l \in DOMAIN heap[c].aggregate_times
            /\ \A l1, l2 \in DOMAIN sm : l1 # l2 => sm[l1] \cap sm[l2] = {}

UnlabelledTockWitness ==
    \E c \in DOMAIN heap :
        \E l1, l2 \in DOMAIN observed[c].sites :
            /\ l1 # l2
            /\ heap[c].aggregate_times[l1].n_periods = 2
            /\ heap[c].aggregate_times[l2].n_periods = 1
            /\ \E s1 \in observed[c].sites[l1], s2 \in observed[c].sites[l2] :
                  s1.filename = s2.filename /\ s1.lineno # s2.lineno

(* C19: a tock does not consume the pending tick: a completed tock leaves the
   clock's pending tick timestamp as it was, still set, and every tock that
   follows a tick, the second and later ones included, records the time of the
   tock minus that tick timestamp. *)
TockMeasuresFromTick ==
    (ret'.op = "Clock.tock" /\ ret'.error = "") =>
        LET c == ret'.self
            l == Get(ret'.name)
        IN  /\ ~IsNone(heap[c].tick_time_ns)
            /\ heap'[c].tick_time_ns = heap[c].tick_time_ns
            /\ heap'[c].aggregate_times[l].last_time_ns = now - Get(heap[c].tick_time_ns)

TockKeepsPendingTick == [][TockMeasuresFromTick]_vars

(* C20: a tock with label L on Clock C changes only the record of L in C: the
   records of the other labels of C, every other Clock (its records and its
   pending tick) and the registry are as before; and no step, tick or tock,
   removes a record. *)
TockFrame ==
    (ret'.op = "Clock.tock") =>
        LET c == ret'.self
            l == Get(ret'.name)
        IN  /\ clocks' = clocks
            /\ Len(heap') = Len(heap)
            /\ \A d \in DOMAIN heap : d # c => heap'[d] = heap[d]
            /\ \A k \in DOMAIN heap[c].aggregate_times :
                  k # l => /\ k \in DOMAIN heap'[c].aggregate_times
                           /\ heap'[c].aggregate_times[k] = heap[c].aggregate_times[k]
            /\ DOMAIN heap'[c].aggregate_times \subseteq DOMAIN heap[c].aggregate_times \cup {l}

NoRecordRemoved ==
    \A c \in DOMAIN heap :
        /\ c \in DOMAIN heap'
        /\ DOMAIN heap[c].aggregate_times \subseteq DOMAIN heap'[c].aggregate_times

TockChangesOneRecord == [][TockFrame /\ NoRecordRemoved]_vars

TockFrameWitness ==
    /\ ret.op = "Clock.tock"
    /\ ret.error = ""
    /\ Len(heap) = 2
    /\ Cardinality(DOMAIN clocks) = 2
    /\ Cardinality(DOMAIN heap[ret.self].aggregate_times) = 2
    /\ heap[ret.self].aggregate_times[Get(ret.name)].n_periods = 1
    /\ \E d \in DOMAIN heap :
          d # ret.self /\ heap[d].aggregate_times # EmptyDict /\ ~IsNone(heap[d].tick_time_ns)

====
